---- MODULE Spec2Model ----
(***************************************************************************)
(* A model of build_na_html.py: the loading of the list of towns           *)
(* (load_cities), the paginated fetch of a town's meetings                 *)
(* (get_meetings_for_town), the aggregation of the meetings by town        *)
(* (build_data), the removal of duplicate meetings (deduplicate_meetings)  *)
(* and the rendering of the HTML fragment (build_html).                    *)
(*                                                                         *)
(* Strings are sequences of Unicode code points, so that Python's ordinal  *)
(* string comparison, slicing, strip() and the regular expression of       *)
(* guess_city_name_from_address are computed and not assumed.  Python's    *)
(* None is NoneStr for a string-valued field and NoneId for an id; a key   *)
(* missing from a dict is AbsentId where the code gives it a default.      *)
(***************************************************************************)
EXTENDS Integers, Sequences, FiniteSets, TLC

VARIABLES
    pc,                 \* position of the program in the function under study
    dd_meetings,        \* deduplicate_meetings: the argument
    dd_unique,          \* deduplicate_meetings: the returned list
    lc,                 \* load_cities: its locals and what it observed
    gm,                 \* get_meetings_for_town: its locals and what it observed
    cities,             \* build_data: the list load_cities returned
    cities_by_id,       \* build_data / build_html: town id -> town record
    external_sites,     \* build_data: town id -> url
    meetings_by_town,   \* build_data: town id -> list of meetings
    bd,                 \* build_data: loop index and the log of the fetches
    html                \* build_html: the blocks of each call, in emission order

vars == <<pc, dd_meetings, dd_unique, lc, gm, cities, cities_by_id,
          external_sites, meetings_by_town, bd, html>>

---------------------------------------------------------------------------
(* Values *)

NoneStr == <<0 - 1>>
NoneId == 0 - 1
AbsentId == 0 - 2

\* Python truthiness of an optional string: None and "" are falsy.
Truthy(s) == s # NoneStr /\ s # <<>>

Range(s) == {s[i] : i \in 1..Len(s)}

Min(a, b) == IF a < b THEN a ELSE b

\* s[:n]
Prefix(s, n) == SubSeq(s, 1, Min(n, Len(s)))

\* Python's s1 < s2 on str: ordinal comparison, code point by code point.
RECURSIVE StrLess(_, _)
StrLess(a, b) ==
    IF b = <<>> THEN FALSE
    ELSE IF a = <<>> THEN TRUE
    ELSE IF a[1] # b[1] THEN a[1] < b[1]
    ELSE StrLess(Tail(a), Tail(b))

StrLeq(a, b) == a = b \/ StrLess(a, b)

---------------------------------------------------------------------------
(* Code points used by the inputs of the model *)

ch_comma == <<44>>
ch_dot == <<46>>
ch_g == <<1075>>          \* "г"

Whitespace == {9, 10, 11, 12, 13, 28, 29, 30, 31, 32, 133, 160}
IsUpper(c) == (c >= 1040 /\ c <= 1071) \/ (c >= 65 /\ c <= 90) \/ c = 1025

---------------------------------------------------------------------------
(* guess_city_name_from_address: re.search(r"г\.\s*([А-ЯA-ZЁ][^,]+)") *)

\* str.strip(): whitespace removed at both ends.
RECURSIVE Strip(_)
Strip(s) ==
    IF s = <<>> THEN s
    ELSE IF s[1] \in Whitespace THEN Strip(Tail(s))
    ELSE IF s[Len(s)] \in Whitespace THEN Strip(SubSeq(s, 1, Len(s) - 1))
    ELSE s

\* \s* is greedy: the first index at or after j that holds no whitespace.
RECURSIVE SkipSpaces(_, _)
SkipSpaces(s, j) ==
    IF j <= Len(s) /\ s[j] \in Whitespace THEN SkipSpaces(s, j + 1) ELSE j

\* [^,]+ is greedy: the last index at or after j before a comma or the end.
RECURSIVE RunEnd(_, _)
RunEnd(s, j) ==
    IF j + 1 <= Len(s) /\ s[j + 1] # ch_comma[1] THEN RunEnd(s, j + 1) ELSE j

\* The pattern matches with "г" at index i.
MatchAt(s, i) ==
    /\ i + 1 <= Len(s)
    /\ s[i] = ch_g[1]
    /\ s[i + 1] = ch_dot[1]
    /\ LET j == SkipSpaces(s, i + 2)
       IN  /\ j + 1 <= Len(s)
           /\ IsUpper(s[j])
           /\ s[j + 1] # ch_comma[1]

guess_city_name_from_address(address) ==
    IF ~Truthy(address) THEN NoneStr
    ELSE LET hits == {i \in 1..Len(address) : MatchAt(address, i)}
         IN  IF hits = {} THEN NoneStr
             ELSE LET i == CHOOSE h \in hits : \A o \in hits : h <= o
                      j == SkipSpaces(address, i + 2)
                  IN  Strip(SubSeq(address, j, RunEnd(address, j + 1)))

---------------------------------------------------------------------------
(* deduplicate_meetings *)

\* A meeting m, as the code reads it:
\*   gid      m["group"]["id"]                    (NoneId when missing)
\*   gname    m["group"]["name"]                  (NoneStr when missing)
\*   time     m["time"], duration m["duration"]   (NoneStr when missing)
\*   address  m["group"]["location"]["address"]   (NoneStr when missing)
\*   town_id  m["group"]["location"]["town_id"]   (AbsentId when missing)
\*   online   m["online"] is truthy
MeetingKey(m) == <<m.gid, m.time, m.duration, m.address>>

\* The loop with seen.add(key) left out.
RECURSIVE DedupLoopNoAdd(_, _, _, _)
DedupLoopNoAdd(meetings, i, seen, unique) ==
    IF i > Len(meetings) THEN unique
    ELSE LET key == MeetingKey(meetings[i])
         IN  IF key \in seen
             THEN DedupLoopNoAdd(meetings, i + 1, seen, unique)
             ELSE DedupLoopNoAdd(meetings, i + 1, seen,
                                 Append(unique, meetings[i]))

RECURSIVE DedupLoop(_, _, _, _)
DedupLoop(meetings, i, seen, unique) ==
    IF i > Len(meetings) THEN unique
    ELSE LET key == MeetingKey(meetings[i])
         IN  IF key \in seen
             THEN DedupLoop(meetings, i + 1, seen, unique)
             ELSE DedupLoop(meetings, i + 1, seen \cup {key},
                            Append(unique, meetings[i]))

deduplicate_meetings(meetings) == DedupLoop(meetings, 1, {}, <<>>)

---------------------------------------------------------------------------
(* Inputs: strings *)

T_10 == <<49, 48, 58, 48, 48, 58, 48, 48>>       \* "10:00:00"
T_19 == <<49, 57, 58, 48, 48, 58, 48, 48>>       \* "19:00:00"
D_0115 == <<48, 49, 58, 49, 53, 58, 48, 48>>     \* "01:15:00"
Addr_Ab == <<1075, 46, 32, 1040, 1073, 44, 32, 1091>>   \* "г. Аб, у"
Addr_plain == <<1091, 1083>>                            \* "ул"
Name_Ab == <<1040, 1073>>                        \* "Аб"
Name_Vo == <<1042, 1086>>                        \* "Во"
GName_1 == <<1085>>                              \* "н"
GName_2 == <<1084>>                              \* "м"
Url_x == <<120>>                                 \* "x"
Slug_s == <<115>>                                \* "s"

\* Sequences over S of length at most n.
SeqsUpTo(S, n) == UNION {[1..k -> S] : k \in 0..n}

\* Sequences of distinct elements of S, of length at most n.
DistinctSeqsUpTo(S, n) ==
    {q \in SeqsUpTo(S, n) : \A i, j \in 1..Len(q) : i # j => q[i] # q[j]}

\* The subsequences of q of length at most n.
RECURSIVE Pick(_, _, _)
Pick(q, I, k) ==
    IF k > Len(q) THEN <<>>
    ELSE (IF k \in I THEN <<q[k]>> ELSE <<>>) \o Pick(q, I, k + 1)

SubSeqsUpTo(q, n) ==
    {Pick(q, I, 1) : I \in {J \in SUBSET (1..Len(q)) : Cardinality(J) <= n}}

---------------------------------------------------------------------------
(* Values of the variables of a function that is not running *)

LcIdle == [i |-> 0]
GmIdle == [n |-> 0]
BdIdle == [i |-> 0]

IdleDedup == dd_meetings = <<>> /\ dd_unique = <<>>
IdleCities == lc = LcIdle
IdleFetch == gm = GmIdle
IdleBuild ==
    /\ cities = <<>>
    /\ cities_by_id = <<>>
    /\ external_sites = <<>>
    /\ meetings_by_town = <<>>
    /\ bd = BdIdle
    /\ html = <<>>

---------------------------------------------------------------------------
(* deduplicate_meetings applied to every list of at most MaxMeetings meetings *)

MaxMeetings == 3

DedupMeetings ==
    [gid : {1, 2}, gname : {GName_1, GName_2}, time : {T_19, NoneStr},
     duration : {D_0115}, address : {Addr_Ab, Addr_plain},
     town_id : {AbsentId}, online : {FALSE}]

InitDedup ==
    /\ pc = "dedup_call"
    /\ dd_meetings \in SeqsUpTo(DedupMeetings, MaxMeetings)
    /\ dd_unique = <<>>
    /\ IdleCities /\ IdleFetch /\ IdleBuild

Deduplicate ==
    /\ pc = "dedup_call"
    /\ dd_unique' = deduplicate_meetings(dd_meetings)
    /\ pc' = "dedup_done"
    /\ UNCHANGED <<dd_meetings, lc, gm, cities, cities_by_id, external_sites,
                   meetings_by_town, bd, html>>

NextDedup == Deduplicate

SpecDedup == InitDedup /\ [][NextDedup]_vars

\* The indices of the first meeting of each key of the list.
FirstOfKey(meetings) ==
    {i \in 1..Len(meetings) :
        \A j \in 1..(i - 1) : MeetingKey(meetings[j]) # MeetingKey(meetings[i])}

\* The k-th smallest element of a set of indices.
NthOf(I, k) == CHOOSE i \in I : Cardinality({j \in I : j <= i}) = k

\* C1: deduplicate_meetings returns the subsequence of its input made of
\* exactly the first meeting of each key, in input order: never longer than
\* the input, and no later meeting of a key survives.
C1_DedupKeepsFirstOfEachKey ==
    pc = "dedup_done" =>
        LET I == FirstOfKey(dd_meetings)
        IN  /\ Len(dd_unique) <= Len(dd_meetings)
            /\ Len(dd_unique) = Cardinality(I)
            /\ \A k \in 1..Len(dd_unique) : dd_unique[k] = dd_meetings[NthOf(I, k)]

\* A list with two different meetings of one key, a meeting of another key
\* between them, has been deduplicated.
C1_Witness ==
    /\ pc = "dedup_done"
    /\ Len(dd_meetings) = 3
    /\ MeetingKey(dd_meetings[1]) = MeetingKey(dd_meetings[3])
    /\ dd_meetings[1] # dd_meetings[3]
    /\ MeetingKey(dd_meetings[1]) # MeetingKey(dd_meetings[2])
    /\ dd_unique = <<dd_meetings[1], dd_meetings[2]>>

---------------------------------------------------------------------------
(* load_cities *)

CITIES_URLS == <<"api/bff/cities", "api/bff/cities/">>
CITIES_CACHE_FILE == "cities.json"

\* Exceptions, by where they were raised.
NoError == [kind |-> "none", at |-> "none"]
RequestError(url) == [kind |-> "request", at |-> url]
JsonError(url) == [kind |-> "json", at |-> url]
ReadError == [kind |-> "read", at |-> CITIES_CACHE_FILE]

NotRaised == [msg |-> "none", cause |-> NoError]

\* What requests.get(url) and resp.json() can do:
\*   "exception"    requests.get raises (no connection, timeout)
\*   "status"       a response whose status_code is not 200
\*   "200_badjson"  status 200, resp.json() raises
\*   "200_null"     status 200, the body is the JSON value null
\*   "200"          status 200, the body is any other JSON value
CityResponses == {"exception", "status", "200_badjson", "200_null", "200"}

\* The cache file: "absent", "unreadable" (read_text or json.loads raises),
\* "null" (holds the JSON value null) or "json" (holds another JSON value).
CacheStates == {"absent", "unreadable", "null", "json"}

\* The variable payload: "None", or where the JSON value came from.
PayloadNone == "None"

\* A town of the payload and a region of the payload.
Town(id, name, slug, reg, redirect, separate) ==
    [id |-> id, name |-> name, slug |-> slug, geographic_region |-> reg,
     redirect_url |-> redirect, separate_site_url |-> separate]

MaxTowns == 2
MaxRegions == 2

LcTowns ==
    {Town(id, NoneStr, NoneStr, reg, NoneStr, NoneStr) :
        id \in {1, 2}, reg \in {NoneId, 1, 2}}
LcRegions ==
    {[id |-> NoneId, country |-> 1], [id |-> 1, country |-> 1],
     [id |-> 1, country |-> 2], [id |-> 2, country |-> 1]}

\* A JSON value, as _parse_cities_payload tells them apart:
\*   "results"  a dict whose "results" is a dict   "flat"  another dict
\*   "list"     a list                             "other" anything else
CityPayloads ==
    [shape : {"results", "flat"},
     towns : DistinctSeqsUpTo(LcTowns, MaxTowns),
     regions : DistinctSeqsUpTo(LcRegions, MaxRegions)]
    \cup [shape : {"list"}, towns : DistinctSeqsUpTo(LcTowns, MaxTowns),
          regions : {<<>>}]
    \cup [shape : {"other"}, towns : {<<>>}, regions : {<<>>}]

_parse_cities_payload(payload) ==
    IF payload.shape \in {"results", "flat"}
    THEN <<payload.towns, payload.regions>>
    ELSE IF payload.shape = "list" THEN <<payload.towns, <<>>>>
    ELSE <<<<>>, <<>>>>

\* region_by_id after the loop over regions: a later region of an id
\* replaces an earlier one, a region without id is left out.
RegionById(regions) ==
    LET ids == {regions[k].id : k \in 1..Len(regions)} \ {NoneId}
        last(rid) == CHOOSE k \in 1..Len(regions) :
                        /\ regions[k].id = rid
                        /\ \A j \in (k + 1)..Len(regions) : regions[j].id # rid
    IN  [rid \in ids |-> regions[last(rid)]]

\* The body of the loop over towns with the test of the country left out.
KeepTownAnyCountry(t, region_by_id) ==
    /\ t.geographic_region # NoneId
    /\ t.geographic_region \in DOMAIN region_by_id

\* The body of the loop over towns: t is appended to towns_ru.
KeepTown(t, region_by_id) ==
    /\ t.geographic_region # NoneId
    /\ t.geographic_region \in DOMAIN region_by_id
    /\ region_by_id[t.geographic_region].country = 1

FilterTowns(towns, regions) ==
    LET region_by_id == RegionById(regions)
    IN  IF DOMAIN region_by_id # {}
        THEN SelectSeq(towns, LAMBDA t : KeepTown(t, region_by_id))
        ELSE towns

\* One pass of the loop over CITIES_URLS, keeping the first exception
\* instead of the last.
LcAttemptKeepFirstError(l, url, resp, write_ok) ==
    LET err == IF l.last_error # NoError THEN l.last_error
               ELSE IF resp = "exception" THEN RequestError(url)
               ELSE IF resp = "200_badjson" THEN JsonError(url)
               ELSE NoError
    IN  [l EXCEPT
            !.requests = Append(@, url),
            !.responses = Append(@, resp),
            !.last_error = err,
            !.payload = IF resp = "200" THEN url ELSE @,
            !.cache = IF resp \in {"200", "200_null"} /\ write_ok
                      THEN (IF resp = "200" THEN "json" ELSE "null") ELSE @,
            !.broke = resp \in {"200", "200_null"},
            !.i = @ + 1]

\* One pass of the loop over CITIES_URLS.
LcAttempt(l, url, resp, write_ok) ==
    [l EXCEPT
        !.requests = Append(@, url),
        !.responses = Append(@, resp),
        !.last_error = IF resp = "exception" THEN RequestError(url)
                       ELSE IF resp = "200_badjson" THEN JsonError(url)
                       ELSE @,
        !.payload = IF resp = "200" THEN url ELSE @,
        !.cache = IF resp \in {"200", "200_null"} /\ write_ok
                  THEN (IF resp = "200" THEN "json" ELSE "null") ELSE @,
        !.broke = resp \in {"200", "200_null"},
        !.i = @ + 1]

InitCities ==
    /\ pc = "lc_try"
    /\ \E cache \in CacheStates :
         lc = [i |-> 1, requests |-> <<>>, responses |-> <<>>,
               last_error |-> NoError, payload |-> PayloadNone,
               cache |-> cache, broke |-> FALSE,
               cache_read |-> FALSE, raised |-> NotRaised,
               parsed_towns |-> <<>>, parsed_regions |-> <<>>, towns |-> <<>>]
    /\ IdleDedup /\ IdleFetch /\ IdleBuild

UnchangedButLc ==
    UNCHANGED <<dd_meetings, dd_unique, gm, cities, cities_by_id,
                external_sites, meetings_by_town, bd, html>>

\* for url in CITIES_URLS: one request
LcTry ==
    /\ pc = "lc_try"
    /\ \E resp \in CityResponses, write_ok \in BOOLEAN :
         LET l == LcAttempt(lc, CITIES_URLS[lc.i], resp, write_ok)
         IN  /\ lc' = l
             /\ pc' = IF l.broke \/ l.i > Len(CITIES_URLS)
                      THEN "lc_fallback" ELSE "lc_try"
    /\ UnchangedButLc

\* if payload is None: the local file
LcFallback ==
    /\ pc = "lc_fallback"
    /\ IF lc.payload # PayloadNone
       THEN lc' = lc /\ pc' = "lc_parse"
       ELSE IF lc.cache = "absent"
       THEN /\ lc' = [lc EXCEPT !.raised =
                        [msg |-> "unavailable", cause |-> lc.last_error]]
            /\ pc' = "lc_raised"
       ELSE IF lc.cache = "unreadable"
       THEN /\ lc' = [lc EXCEPT !.cache_read = TRUE, !.raised =
                        [msg |-> "unreadable", cause |-> ReadError]]
            /\ pc' = "lc_raised"
       ELSE /\ lc' = [lc EXCEPT !.cache_read = TRUE,
                        !.payload = IF lc.cache = "json"
                                    THEN CITIES_CACHE_FILE ELSE PayloadNone]
            /\ pc' = "lc_parse"
    /\ UnchangedButLc

\* _parse_cities_payload, the test of towns, and the filter by region
LcParseFilter ==
    /\ pc = "lc_parse"
    /\ \E content \in CityPayloads :
         /\ lc.payload = PayloadNone => content.shape = "other"
         /\ LET parsed == _parse_cities_payload(content)
            IN  IF parsed[1] = <<>>
                THEN /\ lc' = [lc EXCEPT !.raised =
                                 [msg |-> "empty", cause |-> NoError]]
                     /\ pc' = "lc_raised"
                ELSE /\ lc' = [lc EXCEPT
                                 !.parsed_towns = parsed[1],
                                 !.parsed_regions = parsed[2],
                                 !.towns = FilterTowns(parsed[1], parsed[2])]
                     /\ pc' = "lc_returned"
    /\ UnchangedButLc

NextCities == LcTry \/ LcFallback \/ LcParseFilter

SpecCities == InitCities /\ [][NextCities]_vars

\* The town's geographic_region is the id of a parsed region, and the region
\* parsed last under that id has country 1.
TownInRussia(t, regions) ==
    /\ t.geographic_region # NoneId
    /\ \E k \in 1..Len(regions) :
         /\ regions[k].id = t.geographic_region
         /\ regions[k].country = 1
         /\ \A j \in (k + 1)..Len(regions) : regions[j].id # t.geographic_region

RussianTowns(towns, regions) ==
    SelectSeq(towns, LAMBDA t : TownInRussia(t, regions))

\* C2 as stated: if any regions were parsed, load_cities returns exactly the
\* parsed towns whose region resolves to a parsed region of country 1, in
\* input order; if no regions were parsed, it returns all parsed towns.
C2_Original ==
    pc = "lc_returned" =>
        IF lc.parsed_regions # <<>>
        THEN lc.towns = RussianTowns(lc.parsed_towns, lc.parsed_regions)
        ELSE lc.towns = lc.parsed_towns

\* C2 as amended: the towns are filtered if and only if a region with a
\* non-null id was parsed; when every parsed region lacks an id, as when no
\* region was parsed, all parsed towns are returned unfiltered.
C2_FilterByRegionCountry ==
    pc = "lc_returned" =>
        IF \E k \in 1..Len(lc.parsed_regions) : lc.parsed_regions[k].id # NoneId
        THEN lc.towns = RussianTowns(lc.parsed_towns, lc.parsed_regions)
        ELSE lc.towns = lc.parsed_towns

\* Of two parsed towns, the one whose region has country 1 is returned and
\* the one whose region has another country is dropped.
C2_Witness ==
    /\ pc = "lc_returned"
    /\ Len(lc.parsed_towns) = 2
    /\ Len(lc.parsed_regions) = 2
    /\ lc.parsed_regions[1] = [id |-> 1, country |-> 2]
    /\ lc.parsed_regions[2] = [id |-> 2, country |-> 1]
    /\ lc.parsed_towns[1].geographic_region = 1
    /\ lc.parsed_towns[2].geographic_region = 2
    /\ lc.towns = <<lc.parsed_towns[2]>>

\* The exception of the last remote attempt that raised one.
LastAttemptError(l) ==
    LET raisedAt == {k \in 1..Len(l.responses) :
                        l.responses[k] \in {"exception", "200_badjson"}}
    IN  IF raisedAt = {} THEN NoError
        ELSE LET k == CHOOSE m \in raisedAt : \A o \in raisedAt : o <= m
             IN  IF l.responses[k] = "exception"
                 THEN RequestError(l.requests[k]) ELSE JsonError(l.requests[k])

InConfiguredOrder(l) ==
    /\ Len(l.requests) <= Len(CITIES_URLS)
    /\ \A k \in 1..Len(l.requests) : l.requests[k] = CITIES_URLS[k]

LcLoopOver == pc \in {"lc_fallback", "lc_parse", "lc_raised", "lc_returned"}
LcFallbackOver == pc \in {"lc_parse", "lc_raised", "lc_returned"}

\* C6 as stated: the endpoints are tried in configured order, the first HTTP
\* 200 response is accepted, the cache file is read only if every remote
\* attempt failed, and when the cache file is then absent or unreadable
\* load_cities fails with the last error of the remote attempts as cause.
\* (An attempt is read here as failed when it left no payload, and every
\* exception of an attempt as a network error.)
C6_Original ==
    /\ InConfiguredOrder(lc)
    /\ \A k \in 1..Len(lc.responses) :
         lc.responses[k] \in {"200", "200_null"} => k = Len(lc.responses)
    /\ lc.cache_read =>
         \A k \in 1..Len(lc.responses) : lc.responses[k] # "200"
    /\ (LcFallbackOver /\ lc.payload = PayloadNone
          /\ lc.cache \in {"absent", "unreadable"})
         => /\ pc = "lc_raised"
            /\ lc.raised.msg \in {"unavailable", "unreadable"}
            /\ lc.raised.cause = LastAttemptError(lc)

\* C6 as amended: the endpoints are tried in configured order and the first
\* HTTP 200 response whose body parses as JSON ends the attempts and is the
\* payload; the cache file is read only if no attempt produced a payload
\* other than JSON null; when the file is then absent, load_cities fails with
\* the last exception of the remote attempts as cause (no cause when none
\* raised), and when the file exists but cannot be read, it fails with the
\* read error as cause.
C6_RemoteThenCache ==
    /\ InConfiguredOrder(lc)
    /\ \A k \in 1..Len(lc.responses) :
         lc.responses[k] \in {"200", "200_null"}
            => /\ k = Len(lc.responses)
               /\ \A j \in 1..(k - 1) :
                    lc.responses[j] \in {"exception", "status", "200_badjson"}
               /\ (lc.responses[k] = "200" /\ ~LcFallbackOver)
                    => lc.payload = lc.requests[k]
    /\ (LcLoopOver /\ \A k \in 1..Len(lc.responses) : lc.responses[k] # "200"
          /\ ~lc.cache_read)
         => lc.payload = PayloadNone
    /\ lc.cache_read =>
         /\ LcFallbackOver
         /\ \A k \in 1..Len(lc.responses) : lc.responses[k] # "200"
    /\ (LcFallbackOver /\ lc.payload = PayloadNone /\ lc.cache = "absent")
         => /\ pc = "lc_raised"
            /\ ~lc.cache_read
            /\ lc.raised = [msg |-> "unavailable", cause |-> LastAttemptError(lc)]
    /\ (LcFallbackOver /\ lc.payload = PayloadNone /\ lc.cache = "unreadable")
         => /\ pc = "lc_raised"
            /\ lc.raised = [msg |-> "unreadable", cause |-> ReadError]

\* Both endpoints raised, the cache file is absent, and load_cities has
\* failed with the exception of the second endpoint as cause.
C6_Witness ==
    /\ pc = "lc_raised"
    /\ lc.responses = <<"exception", "exception">>
    /\ lc.cache = "absent"
    /\ lc.raised = [msg |-> "unavailable", cause |-> RequestError(CITIES_URLS[2])]

---------------------------------------------------------------------------
(* get_meetings_for_town *)

MEETINGS_URL == "api/scheduled-meetings/merged/"
NoUrl == "None"
NoParams == [none |-> TRUE]

FirstParams(town_id, on_date) ==
    [town |-> town_id, page |-> 1, limit |-> 500, exact_date |-> on_date,
     include_child_towns |-> "true"]

HttpError(url) == [kind |-> "http", at |-> url]

\* A reply of the server to one request:
\*   kind     "exception" (requests.get raises) or "response"
\*   status   the status code of the response
\*   json_ok  resp.json() returns a dict
\*   results  data["results"]        next  data["next"], NoUrl for null
Reply(kind, status, json_ok, results, next) ==
    [kind |-> kind, status |-> status, json_ok |-> json_ok,
     results |-> results, next |-> next]

\* Response.raise_for_status raises for the client and server error codes.
RaisesForStatus(status) == status >= 400 /\ status < 600

\* One pass of the loop, with all_results built only from the last page.
FetchStepLastPageOnly(g, reply) ==
    LET sent == Append(g.requests, [url |-> g.url, params |-> g.params])
        got == Append(g.pages, reply)
    IN  IF reply.kind = "exception"
        THEN [g EXCEPT !.requests = sent, !.pages = got, !.outcome = "raised",
                       !.error = RequestError(g.url)]
        ELSE IF RaisesForStatus(reply.status)
        THEN [g EXCEPT !.requests = sent, !.pages = got, !.outcome = "raised",
                       !.error = HttpError(g.url)]
        ELSE IF ~reply.json_ok
        THEN [g EXCEPT !.requests = sent, !.pages = got, !.outcome = "raised",
                       !.error = JsonError(g.url)]
        ELSE IF reply.next # NoUrl
        THEN [g EXCEPT !.requests = sent, !.pages = got,
                       !.all_results = reply.results,
                       !.url = reply.next, !.params = NoParams]
        ELSE [g EXCEPT !.requests = sent, !.pages = got,
                       !.all_results = reply.results,
                       !.url = NoUrl, !.outcome = "returned",
                       !.result = reply.results]

\* One pass of the loop "while url": the request, raise_for_status, json(),
\* the extension of all_results and the choice of the next url; after the
\* last pass, the return.
FetchStep(g, reply) ==
    LET sent == Append(g.requests, [url |-> g.url, params |-> g.params])
        got == Append(g.pages, reply)
    IN  IF reply.kind = "exception"
        THEN [g EXCEPT !.requests = sent, !.pages = got, !.outcome = "raised",
                       !.error = RequestError(g.url)]
        ELSE IF RaisesForStatus(reply.status)
        THEN [g EXCEPT !.requests = sent, !.pages = got, !.outcome = "raised",
                       !.error = HttpError(g.url)]
        ELSE IF ~reply.json_ok
        THEN [g EXCEPT !.requests = sent, !.pages = got, !.outcome = "raised",
                       !.error = JsonError(g.url)]
        ELSE IF reply.next # NoUrl
        THEN [g EXCEPT !.requests = sent, !.pages = got,
                       !.all_results = @ \o reply.results,
                       !.url = reply.next, !.params = NoParams]
        ELSE [g EXCEPT !.requests = sent, !.pages = got,
                       !.all_results = @ \o reply.results,
                       !.url = NoUrl, !.outcome = "returned",
                       !.result = g.all_results \o reply.results]

\* The locals of get_meetings_for_town(town_id, on_date) before the loop.
FetchStart(town_id, on_date) ==
    [town_id |-> town_id, on_date |-> on_date,
     url |-> MEETINGS_URL, params |-> FirstParams(town_id, on_date),
     all_results |-> <<>>, requests |-> <<>>, pages |-> <<>>,
     outcome |-> "running", error |-> NoError, result |-> <<>>]

\* get_meetings_for_town against a server that answers the k-th request
\* with replies[k]; "running" when the replies end before the loop does.
RECURSIVE FetchRun(_, _)
FetchRun(g, replies) ==
    IF g.outcome # "running" \/ replies = <<>> THEN g
    ELSE FetchRun(FetchStep(g, Head(replies)), Tail(replies))

get_meetings_for_town(town_id, on_date, replies) ==
    FetchRun(FetchStart(town_id, on_date), replies)

MaxPages == 3
MaxPageResults == 1

Date_1 == <<50, 48, 50, 54, 45, 48, 49, 45, 48, 49>>     \* "2026-01-01"

Meeting(gid, gname, time, duration, address, town_id, online) ==
    [gid |-> gid, gname |-> gname, time |-> time, duration |-> duration,
     address |-> address, town_id |-> town_id, online |-> online]

FetchMeetings ==
    {Meeting(1, GName_1, T_19, D_0115, Addr_plain, AbsentId, FALSE),
     Meeting(2, GName_2, T_10, NoneStr, Addr_Ab, 2, TRUE)}

NextUrls == {"api/next/a", "api/next/b"}

FetchReplies ==
    {Reply("exception", 0, FALSE, <<>>, NoUrl)}
    \cup {Reply("response", st, FALSE, <<>>, NoUrl) : st \in {200, 300, 404, 500}}
    \cup {Reply("response", st, TRUE, rs, nx) :
            st \in {200, 300, 404, 500},
            rs \in SeqsUpTo(FetchMeetings, MaxPageResults),
            nx \in NextUrls \cup {NoUrl}}

InitFetch ==
    /\ pc = "gm_loop"
    /\ \E town_id \in {1, 2} : gm = FetchStart(town_id, Date_1)
    /\ IdleDedup /\ IdleCities /\ IdleBuild

\* while url: one page
GmPage ==
    /\ pc = "gm_loop"
    /\ Len(gm.requests) < MaxPages
    /\ \E reply \in FetchReplies :
         /\ gm' = FetchStep(gm, reply)
         /\ pc' = IF gm'.outcome = "running" THEN "gm_loop" ELSE "gm_done"
    /\ UNCHANGED <<dd_meetings, dd_unique, lc, cities, cities_by_id,
                   external_sites, meetings_by_town, bd, html>>

NextFetch == GmPage

SpecFetch == InitFetch /\ [][NextFetch]_vars

\* The concatenation of the results of the pages, in page order.
RECURSIVE ConcatResults(_)
ConcatResults(pages) ==
    IF pages = <<>> THEN <<>>
    ELSE Head(pages).results \o ConcatResults(Tail(pages))

\* The parameters go with the first request only, and every later request
\* goes to the next url of the page before it.
RequestsFollowNext(g) ==
    \A k \in 1..Len(g.requests) :
        IF k = 1
        THEN g.requests[k] = [url |-> MEETINGS_URL,
                              params |-> FirstParams(g.town_id, g.on_date)]
        ELSE g.requests[k] = [url |-> g.pages[k - 1].next, params |-> NoParams]

\* One request per page, and on return the last page is the first page
\* whose next is null and the result is the concatenation of all pages.
ReturnsAllPages(g) ==
    /\ Len(g.pages) = Len(g.requests)
    /\ g.outcome = "returned" =>
         /\ g.pages # <<>>
         /\ g.pages[Len(g.pages)].next = NoUrl
         /\ \A k \in 1..(Len(g.pages) - 1) : g.pages[k].next # NoUrl
         /\ g.result = ConcatResults(g.pages)

\* C10 as stated: one request per page, the parameters with the first
\* request only, the next url followed until a page has next null, the
\* concatenation of all pages returned; a non-2xx response on any page
\* aborts the fetch with an error and nothing is returned.
C10_Original ==
    /\ RequestsFollowNext(gm)
    /\ ReturnsAllPages(gm)
    /\ \A k \in 1..Len(gm.pages) :
         (gm.pages[k].kind = "response"
            /\ ~(gm.pages[k].status >= 200 /\ gm.pages[k].status < 300))
         => /\ gm.outcome = "raised"
            /\ gm.error # NoError
            /\ gm.result = <<>>
            /\ k = Len(gm.pages)

\* C10 as amended: as stated, with the abort on every response whose status
\* is a client or server error (400 to 599); a response of another status
\* is read as a page.
C10_PagesFollowedUntilNull ==
    /\ RequestsFollowNext(gm)
    /\ ReturnsAllPages(gm)
    /\ \A k \in 1..Len(gm.pages) :
         (gm.pages[k].kind = "response"
            /\ gm.pages[k].status >= 400 /\ gm.pages[k].status < 600)
         => /\ gm.outcome = "raised"
            /\ gm.error = HttpError(gm.requests[k].url)
            /\ gm.result = <<>>
            /\ k = Len(gm.pages)

\* Two pages with a meeting each have been read and a third request, sent
\* to the next url of the second page without parameters, got a 404: the
\* fetch has raised and returned nothing.
C10_Witness ==
    /\ pc = "gm_done"
    /\ Len(gm.pages) = 3
    /\ Len(gm.all_results) = 2
    /\ gm.pages[3].status = 404
    /\ gm.requests[3] = [url |-> gm.pages[2].next, params |-> NoParams]
    /\ gm.outcome = "raised"
    /\ gm.result = <<>>

---------------------------------------------------------------------------
(* build_data *)

\* c.get("redirect_url") or c.get("separate_site_url")
ExtUrl(c) ==
    IF Truthy(c.redirect_url) THEN c.redirect_url ELSE c.separate_site_url

\* d[k] = v
DictPut(d, k, v) == [x \in DOMAIN d \cup {k} |-> IF x = k THEN v ELSE d[x]]

\* d.get(k, default)
DictGet(d, k, default) == IF k \in DOMAIN d THEN d[k] ELSE default

\* The first loop over cities: cities_by_id and external_sites.
RECURSIVE IndexCities(_, _, _)
IndexCities(cs, by_id, ext) ==
    IF cs = <<>> THEN [by_id |-> by_id, ext |-> ext]
    ELSE LET c == Head(cs)
         IN  IF c.id = NoneId THEN IndexCities(Tail(cs), by_id, ext)
             ELSE IndexCities(Tail(cs), DictPut(by_id, c.id, c),
                              IF Truthy(ExtUrl(c))
                              THEN DictPut(ext, c.id, ExtUrl(c)) ELSE ext)

\* The key of every meeting is the queried town.
RealTownIdQueried(m, town_id) == town_id

\* loc.get("town_id", town_id)
RealTownId(m, town_id) == IF m.town_id = AbsentId THEN town_id ELSE m.town_id

\* meetings_by_town.setdefault(real_town_id, []).append(m), for each m
RECURSIVE Rekey(_, _, _)
Rekey(by_town, meetings, town_id) ==
    IF meetings = <<>> THEN by_town
    ELSE LET m == Head(meetings)
             k == RealTownId(m, town_id)
         IN  Rekey(DictPut(by_town, k, Append(DictGet(by_town, k, <<>>), m)),
                   Tail(meetings), town_id)

\* The list of the fetch kept whole, the online meetings with it.
LiveAll(meetings) == meetings

\* [m for m in meetings if not m.get("online")]
Live(meetings) == SelectSeq(meetings, LAMBDA m : ~m.online)

\* What the second loop notes of one pass: the town, what became of its
\* fetch, the list the fetch returned, and meetings_by_town after the pass.
LogEntry(town_id, outcome, error, result, by_town) ==
    [town_id |-> town_id, outcome |-> outcome, error |-> error,
     result |-> result, indexed |-> by_town]

\* The body of the second loop without the try: an exception of the fetch
\* leaves build_data.
TownPassNoTry(by_town, ext, c, g) ==
    IF c.id \in DOMAIN ext
    THEN [by_town |-> by_town, aborted |-> FALSE,
          entry |-> LogEntry(c.id, "skipped", NoError, <<>>, by_town)]
    ELSE IF g.outcome = "raised"
    THEN [by_town |-> by_town, aborted |-> TRUE,
          entry |-> LogEntry(c.id, "raised", g.error, <<>>, by_town)]
    ELSE LET after == Rekey(by_town, Live(g.result), c.id)
         IN  [by_town |-> after, aborted |-> FALSE,
              entry |-> LogEntry(c.id, "returned", NoError, g.result, after)]

\* The body of the second loop for the town c, g being what
\* get_meetings_for_town did: the new meetings_by_town and what happened.
\* (With no live meeting the code leaves the pass early; the re-keying of
\* an empty list changes nothing either.)
TownPass(by_town, ext, c, g) ==
    IF c.id \in DOMAIN ext
    THEN [by_town |-> by_town, aborted |-> FALSE,
          entry |-> LogEntry(c.id, "skipped", NoError, <<>>, by_town)]
    ELSE IF g.outcome = "raised"
    THEN [by_town |-> by_town, aborted |-> FALSE,
          entry |-> LogEntry(c.id, "raised", g.error, <<>>, by_town)]
    ELSE LET after == Rekey(by_town, Live(g.result), c.id)
         IN  [by_town |-> after, aborted |-> FALSE,
              entry |-> LogEntry(c.id, "returned", NoError, g.result, after)]

MaxCities == 2
MaxFetched == 2

BuildTowns ==
    {Town(1, Name_Vo, Slug_s, 1, NoneStr, NoneStr),
     Town(2, NoneStr, NoneStr, 1, NoneStr, NoneStr),
     Town(3, NoneStr, NoneStr, 1, Url_x, NoneStr),
     Town(NoneId, NoneStr, NoneStr, 1, NoneStr, Url_x)}

\* The meetings of the server, in the order in which it lists them: two
\* live meetings of one key (the second located in town 2), an online
\* meeting located in town 2, and a live meeting located in town 3.
BuildMeetings ==
    <<Meeting(1, GName_1, T_19, D_0115, Addr_Ab, AbsentId, FALSE),
      Meeting(1, GName_2, T_19, D_0115, Addr_Ab, 2, FALSE),
      Meeting(1, GName_1, T_19, D_0115, Addr_Ab, 2, TRUE),
      Meeting(2, NoneStr, T_10, NoneStr, Addr_plain, 3, FALSE)>>

OkPage(results, next) == Reply("response", 200, TRUE, results, next)

FailingReplies ==
    {Reply("exception", 0, FALSE, <<>>, NoUrl),
     Reply("response", 404, FALSE, <<>>, NoUrl),
     Reply("response", 200, FALSE, <<>>, NoUrl)}

\* What the server answers to the requests of one town: the meetings on one
\* page or on two, or a failure on the first page or on the second.
BuildReplies ==
    LET lists == SubSeqsUpTo(BuildMeetings, MaxFetched)
    IN  {<<OkPage(rs, NoUrl)>> : rs \in lists}
        \cup {<<OkPage(<<rs[1]>>, "api/next/a"), OkPage(Tail(rs), NoUrl)>> :
                rs \in lists \ {<<>>}}
        \cup {<<f>> : f \in FailingReplies}
        \cup {<<OkPage(<<rs[1]>>, "api/next/a"), f>> :
                rs \in lists \ {<<>>}, f \in FailingReplies}

Init ==
    /\ pc = "bd_index"
    /\ cities \in DistinctSeqsUpTo(BuildTowns, MaxCities)
    /\ cities_by_id = <<>>
    /\ external_sites = <<>>
    /\ meetings_by_town = <<>>
    /\ bd = [i |-> 1, log |-> <<>>]
    /\ html = <<>>
    /\ IdleDedup /\ IdleCities /\ IdleFetch

\* for c in cities: cities_by_id, external_sites
BdIndex ==
    /\ pc = "bd_index"
    /\ LET ix == IndexCities(cities, <<>>, <<>>)
       IN  /\ cities_by_id' = ix.by_id
           /\ external_sites' = ix.ext
    /\ pc' = "bd_fetch"
    /\ UNCHANGED <<dd_meetings, dd_unique, lc, gm, cities, meetings_by_town,
                   bd, html>>

\* for c in cities: one town
BdTown ==
    /\ pc = "bd_fetch"
    /\ bd.i <= Len(cities)
    /\ \E replies \in BuildReplies :
         LET c == cities[bd.i]
             g == get_meetings_for_town(c.id, Date_1, replies)
             r == TownPass(meetings_by_town, external_sites, c, g)
         IN  /\ g.outcome # "running"
             /\ meetings_by_town' = r.by_town
             /\ bd' = [i |-> bd.i + 1, log |-> Append(bd.log, r.entry)]
             /\ pc' = IF r.aborted THEN "bd_aborted" ELSE "bd_fetch"
    /\ UNCHANGED <<dd_meetings, dd_unique, lc, gm, cities, cities_by_id,
                   external_sites, html>>

\* return meetings_by_town, cities_by_id, external_sites
BdReturn ==
    /\ pc = "bd_fetch"
    /\ bd.i > Len(cities)
    /\ pc' = "bh_first"
    /\ UNCHANGED <<dd_meetings, dd_unique, lc, gm, cities, cities_by_id,
                   external_sites, meetings_by_town, bd, html>>

---------------------------------------------------------------------------
(* build_html *)

Str_None == <<78, 111, 110, 101>>                                \* "None"
Str_Gorod_id == <<1043, 1086, 1088, 1086, 1076, 32, 105, 100, 61>>  \* "Город id="
Str_Untitled ==                                                  \* "Без названия"
    <<1041, 1077, 1079, 32, 1085, 1072, 1079, 1074, 1072, 1085, 1080, 1103>>
Str_NoAddress ==                                                 \* "Адрес не указан"
    <<1040, 1076, 1088, 1077, 1089, 32, 1085, 1077, 32, 1091, 1082, 1072,
      1079, 1072, 1085>>

\* str(n) of a natural number
RECURSIVE Digits(_)
Digits(n) ==
    IF n < 10 THEN <<48 + n>> ELSE Digits(n \div 10) \o <<48 + (n % 10)>>

\* f"Город id={town_id}"
Placeholder(town_id) ==
    Str_Gorod_id \o (IF town_id = NoneId THEN Str_None ELSE Digits(town_id))

\* The dict {} as a town: every key is missing.
EmptyTown == Town(AbsentId, NoneStr, NoneStr, NoneId, NoneStr, NoneStr)

town_sort_key(town_id, by_id) ==
    LET name == DictGet(by_id, town_id, EmptyTown).name
    IN  IF Truthy(name) THEN name ELSE Placeholder(town_id)

\* The orders sorted(all_town_ids, key=town_sort_key) can give: towns of
\* equal key come in the order in which the set yields them.
SortedOrders(ids, by_id) ==
    {q \in [1..Cardinality(ids) -> ids] :
        /\ \A i, j \in DOMAIN q : i # j => q[i] # q[j]
        /\ \A i \in 1..(Len(q) - 1) :
             StrLeq(town_sort_key(q[i], by_id), town_sort_key(q[i + 1], by_id))}

\* m.get("time") or ""
TimeKey(m) == IF Truthy(m.time) THEN m.time ELSE <<>>

\* sorted(meetings, key=time or ""): stable, so a meeting goes after the
\* meetings placed before it whose key is not greater.
RECURSIVE InsertByTime(_, _)
InsertByTime(sorted, m) ==
    IF sorted = <<>> THEN <<m>>
    ELSE IF StrLess(TimeKey(m), TimeKey(Head(sorted)))
    THEN <<m>> \o sorted
    ELSE <<Head(sorted)>> \o InsertByTime(Tail(sorted), m)

RECURSIVE SortByTime(_, _)
SortByTime(meetings, sorted) ==
    IF meetings = <<>> THEN sorted
    ELSE SortByTime(Tail(meetings), InsertByTime(sorted, Head(meetings)))

NoGroupUrl == [slug |-> NoneStr, gid |-> NoneId]

\* One <li>: the group's name, the link to the group's page when the town
\* of the meeting has a slug and the group an id, the time and the duration
\* cut to five characters, the address.
ListItem(m, town_id, by_id) ==
    LET slug == DictGet(by_id, RealTownId(m, town_id), EmptyTown).slug
    IN  [group_name |-> IF m.gname = NoneStr THEN Str_Untitled ELSE m.gname,
         group_url |-> IF Truthy(slug) /\ m.gid # NoneId /\ m.gid # 0
                       THEN [slug |-> slug, gid |-> m.gid] ELSE NoGroupUrl,
         time |-> Prefix(TimeKey(m), 5),
         duration |-> Prefix(IF Truthy(m.duration) THEN m.duration ELSE <<>>, 5),
         addr |-> IF m.address = NoneStr THEN Str_NoAddress ELSE m.address]

\* The guessed name is not written onto the town.
BackfillNothing(by_id, town_id, city_obj, guessed) == by_id

\* city_obj["name"] = guessed; cities_by_id[town_id] = city_obj
BackfillName(by_id, town_id, city_obj, guessed) ==
    DictPut(by_id, town_id, [city_obj EXCEPT !.name = guessed])

\* One pass of the loop over the sorted towns: the block of the town (its
\* <h2>, then the link-out <p> or the <ul> of its meetings) and cities_by_id
\* after the pass.
\* (build_data stores only dicts in cities_by_id, so the branches for a
\* value that is no dict are never taken.)
RenderTown(town_id, by_town, by_id, ext) ==
    LET city_obj == DictGet(by_id, town_id, EmptyTown)
        meetings == DictGet(by_town, town_id, <<>>)
        tries == ~Truthy(city_obj.name) /\ meetings # <<>>
        guessed == IF tries
                   THEN guess_city_name_from_address(
                            IF meetings[1].address = NoneStr
                            THEN <<>> ELSE meetings[1].address)
                   ELSE NoneStr
        city_name == IF Truthy(city_obj.name) THEN city_obj.name
                     ELSE IF Truthy(guessed) THEN guessed
                     ELSE Placeholder(town_id)
        by_id2 == IF tries /\ Truthy(guessed)
                  THEN BackfillName(by_id, town_id, city_obj, guessed)
                  ELSE by_id
        ext_url == DictGet(ext, town_id, NoneStr)
        shown == SortByTime(deduplicate_meetings(meetings), <<>>)
    IN  [by_id |-> by_id2,
         block |->
            IF Truthy(ext_url)
            THEN [town_id |-> town_id, h2 |-> city_name, link |-> ext_url,
                  ul |-> FALSE, li |-> <<>>]
            ELSE [town_id |-> town_id, h2 |-> city_name, link |-> NoneStr,
                  ul |-> TRUE,
                  li |-> [k \in 1..Len(shown) |->
                            ListItem(shown[k], town_id, by_id2)]]]

\* The loop over the sorted towns.
RECURSIVE RenderTowns(_, _, _, _, _)
RenderTowns(order, by_town, by_id, ext, blocks) ==
    IF order = <<>> THEN [by_id |-> by_id, blocks |-> blocks]
    ELSE LET r == RenderTown(Head(order), by_town, by_id, ext)
         IN  RenderTowns(Tail(order), by_town, r.by_id, ext,
                         Append(blocks, r.block))

\* build_html(on_date, meetings_by_town, cities_by_id, external_sites), once
\* on what build_data returned and once more on the same arguments.
BuildHtml ==
    /\ pc \in {"bh_first", "bh_second"}
    /\ \E order \in SortedOrders(DOMAIN meetings_by_town \cup DOMAIN external_sites,
                                 cities_by_id) :
         LET r == RenderTowns(order, meetings_by_town, cities_by_id,
                              external_sites, <<>>)
         IN  /\ html' = Append(html, r.blocks)
             /\ cities_by_id' = r.by_id
    /\ pc' = IF pc = "bh_first" THEN "bh_second" ELSE "bh_done"
    /\ UNCHANGED <<dd_meetings, dd_unique, lc, gm, cities, external_sites,
                   meetings_by_town, bd>>

Next == BdIndex \/ BdTown \/ BdReturn \/ BuildHtml

Spec == Init /\ [][Next]_vars

---------------------------------------------------------------------------
(* Claims on build_data and build_html *)

BuildDataReturned == pc \in {"bh_first", "bh_second", "bh_done"}

\* meetings_by_town before the k-th pass of the second loop.
IndexedBefore(k) == IF k = 1 THEN <<>> ELSE bd.log[k - 1].indexed

\* The town ids of the blocks of a call, in emission order.
BlockTowns(blocks) == [k \in 1..Len(blocks) |-> blocks[k].town_id]

\* C3 as stated: the headings of build_html show each town id of
\* keys(meetings_by_town) and keys(external_sites) exactly once and no other
\* town, in ascending order of the display name of the heading (stated here
\* of the runs in which every loaded town has an id).
C3_Original ==
    (Len(html) >= 1 /\ \A c \in 1..Len(cities) : cities[c].id # NoneId) =>
        LET blocks == html[1]
            shown == DOMAIN meetings_by_town \cup DOMAIN external_sites
        IN  /\ Range(BlockTowns(blocks)) = shown
            /\ Len(blocks) = Cardinality(shown)
            /\ \A k \in 1..(Len(blocks) - 1) :
                 StrLeq(blocks[k].h2, blocks[k + 1].h2)

\* C4 as stated: a town carrying a redirect or external-site url is never
\* passed to get_meetings_for_town, and whatever is indexed under its id its
\* block is a heading and one link-out paragraph, with no list.
C4_Original ==
    /\ \A k \in 1..Len(bd.log) :
         Truthy(ExtUrl(cities[k])) => bd.log[k].outcome = "skipped"
    /\ \A n \in 1..Len(html) : \A b \in 1..Len(html[n]) :
         \A k \in 1..Len(cities) :
            (Truthy(ExtUrl(cities[k])) /\ cities[k].id = html[n][b].town_id)
            => /\ html[n][b].link = ExtUrl(cities[k])
               /\ ~html[n][b].ul
               /\ html[n][b].li = <<>>

\* The live meetings among the fetched ones that belong under the town t:
\* located in t, or of no location and fetched for t.
FetchedLiveUnder(t) ==
    UNION {{bd.log[k].result[i] : i \in
              {j \in 1..Len(bd.log[k].result) :
                 /\ ~bd.log[k].result[j].online
                 /\ IF bd.log[k].result[j].town_id = AbsentId
                    THEN bd.log[k].town_id = t
                    ELSE bd.log[k].result[j].town_id = t}} :
           k \in 1..Len(bd.log)}

KeysOf(ms) == {<<m.gid, m.time, m.duration, m.address>> : m \in ms}

AllTownIds == {NoneId} \cup 1..3

\* C5: after build_data and build_html, a town without external site has as
\* many list items as there are distinct keys among the live fetched
\* meetings indexed under it (and no block when there is none): an online
\* meeting adds no item, two live meetings of one key add one.
C5_OneItemPerLiveKey ==
    Len(html) >= 1 =>
        \A t \in AllTownIds \ DOMAIN external_sites :
            LET mine == {b \in 1..Len(html[1]) : html[1][b].town_id = t}
            IN  IF FetchedLiveUnder(t) = {} THEN mine = {}
                ELSE /\ Cardinality(mine) = 1
                     /\ \A b \in mine :
                          /\ html[1][b].ul
                          /\ Len(html[1][b].li)
                               = Cardinality(KeysOf(FetchedLiveUnder(t)))

\* Town 2 got two live meetings of one key and an online meeting, and its
\* block has one list item.
C5_Witness ==
    /\ Len(html) >= 1
    /\ 2 \notin DOMAIN external_sites
    /\ Cardinality(FetchedLiveUnder(2)) = 2
    /\ Cardinality(KeysOf(FetchedLiveUnder(2))) = 1
    /\ \E k \in 1..Len(bd.log) : \E i \in 1..Len(bd.log[k].result) :
         bd.log[k].result[i].online /\ bd.log[k].result[i].town_id = 2
    /\ \E b \in 1..Len(html[1]) :
         html[1][b].town_id = 2 /\ Len(html[1][b].li) = 1

\* C7: a failed fetch never aborts build_data: the pass of that town leaves
\* meetings_by_town as the earlier towns made it, every town without
\* external site is still fetched, and build_data returns.
C7_FetchFailureTolerated ==
    /\ pc # "bd_aborted"
    /\ \A k \in 1..Len(bd.log) :
         bd.log[k].outcome = "raised" =>
            /\ bd.log[k].error # NoError
            /\ bd.log[k].indexed = IndexedBefore(k)
            /\ (k = Len(bd.log) /\ ~BuildDataReturned) =>
                 (pc = "bd_fetch" /\ meetings_by_town = IndexedBefore(k))
    /\ BuildDataReturned =>
         /\ Len(bd.log) = Len(cities)
         /\ \A k \in 1..Len(cities) :
              /\ bd.log[k].town_id = cities[k].id
              /\ cities[k].id \notin DOMAIN external_sites
                   => bd.log[k].outcome \in {"returned", "raised"}

\* The fetch of the first town failed, the second town was fetched and its
\* meetings indexed, and build_data has returned.
C7_Witness ==
    /\ BuildDataReturned
    /\ Len(bd.log) = 2
    /\ bd.log[1].outcome = "raised"
    /\ bd.log[1].indexed = <<>>
    /\ bd.log[2].outcome = "returned"
    /\ bd.log[2].indexed # <<>>
    /\ meetings_by_town = bd.log[2].indexed

\* C9: every live meeting of a successful fetch is appended, in fetch order,
\* to one list of meetings_by_town: that of its location's town_id if it has
\* one, else that of the queried town.
C9_RekeyedByLocation ==
    /\ (bd.log # <<>> /\ pc # "bd_index")
         => meetings_by_town = bd.log[Len(bd.log)].indexed
    /\ \A k \in 1..Len(bd.log) :
         bd.log[k].outcome = "returned" =>
            LET before == IndexedBefore(k)
                after == bd.log[k].indexed
                live == SelectSeq(bd.log[k].result, LAMBDA m : ~m.online)
                under(t) == SelectSeq(live, LAMBDA m :
                                IF m.town_id = AbsentId
                                THEN bd.log[k].town_id = t ELSE m.town_id = t)
            IN  /\ DOMAIN after
                     = DOMAIN before \cup {t \in AllTownIds : under(t) # <<>>}
                /\ \A t \in DOMAIN after :
                     after[t] = DictGet(before, t, <<>>) \o under(t)

\* The fetch for town 1 returned a meeting without location and then a
\* meeting located in town 2: the first is under 1, the second under 2.
C9_Witness ==
    \E k \in 1..Len(bd.log) :
        /\ bd.log[k].outcome = "returned"
        /\ bd.log[k].town_id = 1
        /\ Len(bd.log[k].result) = 2
        /\ bd.log[k].result[1].town_id = AbsentId
        /\ bd.log[k].result[2].town_id = 2
        /\ IndexedBefore(k) = <<>>
        /\ bd.log[k].indexed[1] = <<bd.log[k].result[1]>>
        /\ bd.log[k].indexed[2] = <<bd.log[k].result[2]>>

\* The heading of the town t among the blocks of a call.
HeadingOf(blocks, t) ==
    blocks[CHOOSE b \in 1..Len(blocks) : blocks[b].town_id = t].h2

\* The name guessed for the town t from the first meeting indexed under it,
\* NoneStr when there is no meeting or no name in its address.
GuessFor(t) ==
    IF t \in DOMAIN meetings_by_town /\ meetings_by_town[t] # <<>>
    THEN guess_city_name_from_address(
            IF meetings_by_town[t][1].address = NoneStr
            THEN <<>> ELSE meetings_by_town[t][1].address)
    ELSE NoneStr

\* C8: display-name resolution is idempotent: a town without stored name
\* whose first meeting's address gives a name has that name written onto its
\* record by the first build_html, a second build_html on the same arguments
\* shows every town under the same name, and the records of the towns are
\* changed in no other way.
C8_NameResolutionIdempotent ==
    Len(html) >= 1 =>
        LET loaded == IndexCities(cities, <<>>, <<>>).by_id
            shown == DOMAIN meetings_by_town \cup DOMAIN external_sites
            backfilled == {t \in shown :
                             /\ ~Truthy(DictGet(loaded, t, EmptyTown).name)
                             /\ Truthy(GuessFor(t))}
        IN  /\ DOMAIN cities_by_id = DOMAIN loaded \cup backfilled
            /\ \A t \in backfilled :
                 /\ cities_by_id[t]
                      = [DictGet(loaded, t, EmptyTown) EXCEPT !.name = GuessFor(t)]
                 /\ HeadingOf(html[1], t) = GuessFor(t)
            /\ \A t \in DOMAIN loaded \ backfilled : cities_by_id[t] = loaded[t]
            /\ Len(html) = 2 =>
                 /\ Range(BlockTowns(html[2])) = Range(BlockTowns(html[1]))
                 /\ \A t \in shown : HeadingOf(html[2], t) = HeadingOf(html[1], t)

\* Town 2 was loaded without name, its first meeting's address names "Аб":
\* the name is on its record and both calls show it under that name.
C8_Witness ==
    /\ Len(html) = 2
    /\ \E c \in 1..Len(cities) : cities[c].id = 2 /\ cities[c].name = NoneStr
    /\ 2 \in DOMAIN meetings_by_town
    /\ meetings_by_town[2][1].address = Addr_Ab
    /\ cities_by_id[2].name = Name_Ab
    /\ HeadingOf(html[1], 2) = Name_Ab
    /\ HeadingOf(html[2], 2) = Name_Ab

====
